---- MODULE Spec2Model ----
(***************************************************************************)
(* Model of rle.c: the RLE encoder and decoder (encode, decode) over       *)
(* stdio streams, and the command line driver (main).                      *)
(*                                                                         *)
(* A stream (FILE) is a record: data (the bytes of the source, or the      *)
(* bytes the sink has accepted), pos (read position), err (ferror).        *)
(* One action is one iteration of the loop of encode or decode, together   *)
(* with the return sequence that follows the loop when the iteration       *)
(* leaves it.                                                              *)
(***************************************************************************)
EXTENDS Integers, Sequences, FiniteSets, TLC

VARIABLES pc, op, fin, fout, enc, dec, ret, msg, segs, io, orig, coded, mn, fs

vars == <<pc, op, fin, fout, enc, dec, ret, msg, segs, io, orig, coded, mn, fs>>

\* ---------------------------------------------------------------- constants
\* fgetc's end-of-file value.
EOF == -1
\* errno value returned (negated) by encode and decode on failure.
EIO == 5
\* errno value main starts from (ret = -EINVAL).
EINVAL == 22
\* errno value of a failed unlink (EACCES taken for any errno but ENOENT).
EACCES == 13
\* Longest run one Run segment carries (0x7f).
RunMax == 127
\* Longest literal stretch one Literal segment carries (0x80).
LitMax == 128
\* Buffer fill at which literal mode must flush (0x81, the size of buf).
BufFull == 129
\* Modulus of the length byte (0x100).
Base == 256

\* ---------------------------------------------------------------- bounds
\* Longest input enumerated exhaustively over SmallBytes.
MaxSmall == 5
\* Longest prefix and suffix put around a long stretch.
MaxEdge == 1
\* How far past BufFull the long stretches reach.
MaxOver == 1
\* Longest wire stream enumerated exhaustively for the decoder.
MaxWire == 5
\* Longest stream enumerated when I/O may fail.
MaxIO == 3
\* Longest input file given to main.
MaxMain == 2

SmallBytes == {0, 65, 255}
EdgeBytes == {65, 66}
WireBytes == {0, 1, 2, 254, 255}
IOBytes == {1, 2, 255}

SeqsUpTo(S, n) == UNION {[1..k -> S] : k \in 0..n}
RunOf(b, n) == [i \in 1..n |-> b]
AltOf(a, b, n) == [i \in 1..n |-> IF i % 2 = 1 THEN a ELSE b]

\* Stretch lengths around the segment maxima, and around twice the maxima.
NearLens == (RunMax - 1)..(BufFull + MaxOver)
FarLens == (2 * RunMax)..(2 * LitMax + 1)

Stretches(lens) ==
    {RunOf(b, n) : b \in EdgeBytes, n \in lens} \cup
    {AltOf(p[1], p[2], n) : p \in {q \in EdgeBytes \X EdgeBytes : q[1] # q[2]}, n \in lens}

\* A long literal stretch next to a long run, in both orders.
MixedInputs ==
    LET lens == {RunMax, LitMax, BufFull}
        alts == {AltOf(65, 66, n) : n \in lens} \cup {AltOf(66, 65, n) : n \in lens}
        runs == {RunOf(b, n) : b \in EdgeBytes, n \in lens}
    IN  {a \o r : a \in alts, r \in runs} \cup {r \o a : a \in alts, r \in runs}

LongInputs ==
    {e[1] \o m \o e[2] :
        e \in SeqsUpTo(EdgeBytes, MaxEdge) \X SeqsUpTo(EdgeBytes, MaxEdge),
        m \in Stretches(NearLens)} \cup Stretches(FarLens) \cup MixedInputs

Inputs == SeqsUpTo(SmallBytes, MaxSmall) \cup LongInputs

\* ---------------------------------------------------------------- stdio
OpenIn(bytes) == [data |-> bytes, pos |-> 0, err |-> FALSE]
OpenOut == [data |-> <<>>, pos |-> 0, err |-> FALSE]

\* fgetc that hands out the next byte without moving past it.
FGetc_Stay(f, r) ==
    IF r = "fail" THEN [ch |-> EOF, f |-> [f EXCEPT !.err = TRUE]]
    ELSE IF f.pos < Len(f.data)
         THEN [ch |-> f.data[f.pos + 1], f |-> f]
         ELSE [ch |-> EOF, f |-> f]

\* fgetc(f): the next byte, or EOF at the end of the data or on a read error
\* (r = "fail"), which sets the stream's error indicator.
FGetc(f, r) ==
    IF r = "fail" THEN [ch |-> EOF, f |-> [f EXCEPT !.err = TRUE]]
    ELSE IF f.pos < Len(f.data)
         THEN [ch |-> f.data[f.pos + 1], f |-> [f EXCEPT !.pos = @ + 1]]
         ELSE [ch |-> EOF, f |-> f]

\* fputc(c, f): the byte (converted to unsigned char) is accepted, or the write
\* fails (w = "fail") and sets the stream's error indicator.
FPutc(f, c, w) ==
    IF w = "fail" THEN [f EXCEPT !.err = TRUE]
    ELSE [f EXCEPT !.data = Append(@, c % Base)]

\* fwrite(bytes, n, 1, f): k = n bytes accepted, or a failure after k < n bytes.
FWrite(f, bytes, k) ==
    [f EXCEPT !.data = @ \o SubSeq(bytes, 1, k),
              !.err = @ \/ k < Len(bytes)]

\* The I/O ledger: the kind of the first failure, and the number of I/O calls
\* made after it.  An event is "r", "w" (a call that succeeded), "rf", "wf" (a
\* call that failed) or "eos" (end of input met inside a segment).
FailKind(e) == IF e = "rf" THEN "input" ELSE IF e = "wf" THEN "output" ELSE "eos"

Track(g, evs) ==
    LET calls(from) == Cardinality({j \in from..Len(evs) : evs[j] # "eos"})
        fails == {i \in 1..Len(evs) : evs[i] \in {"rf", "wf", "eos"}}
    IN  IF g.first # "none" THEN [g EXCEPT !.late = @ + calls(1)]
        ELSE IF fails = {} THEN g
        ELSE LET i0 == CHOOSE i \in fails : \A j \in fails : i <= j
             IN [first |-> FailKind(evs[i0]), late |-> calls(i0 + 1)]

RdEv(r) == IF r = "fail" THEN "rf" ELSE "r"
WrEv(w) == IF w = "fail" THEN "wf" ELSE "w"

\* ---------------------------------------------------------------- encode
\* RunFlush with the maximum tested one byte late.
RunFlush_Late(buf, len, ch) ==
    IF buf[len - 1] # buf[len] THEN [flush |-> len - 1, repeat |-> 0]
    ELSE IF len = RunMax + 1 \/ ch = EOF THEN [flush |-> len, repeat |-> 0]
    ELSE [flush |-> 0, repeat |-> 1]

\* RunFlush keeping two bytes back, not one, when a run is broken.
RunFlush_Short(buf, len, ch) ==
    IF buf[len - 1] # buf[len] THEN [flush |-> len - 2, repeat |-> 0]
    ELSE IF len = RunMax \/ ch = EOF THEN [flush |-> len, repeat |-> 0]
    ELSE [flush |-> 0, repeat |-> 1]

\* RunFlush with the maximum tested one byte early.
RunFlush_Early(buf, len, ch) ==
    IF buf[len - 1] # buf[len] THEN [flush |-> len - 1, repeat |-> 0]
    ELSE IF len = RunMax - 1 \/ ch = EOF THEN [flush |-> len, repeat |-> 0]
    ELSE [flush |-> 0, repeat |-> 1]

\* The run-mode decision: how many buffered bytes to flush, and the next mode.
RunFlush(buf, len, ch) ==
    IF buf[len - 1] # buf[len] THEN [flush |-> len - 1, repeat |-> 0]
    ELSE IF len = RunMax \/ ch = EOF THEN [flush |-> len, repeat |-> 0]
    ELSE [flush |-> 0, repeat |-> 1]

\* LitFlush that finds the pair but stays in literal mode.
LitFlush_NoRun(buf, len, ch) ==
    IF len >= 2 /\ buf[len - 1] = buf[len] THEN [flush |-> len - 2, repeat |-> 0]
    ELSE IF len = BufFull THEN [flush |-> LitMax, repeat |-> 0]
    ELSE IF ch = EOF THEN [flush |-> len, repeat |-> 0]
    ELSE [flush |-> 0, repeat |-> 0]

\* LitFlush that tests for a full buffer one byte late.
LitFlush_Overrun(buf, len, ch) ==
    IF len >= 2 /\ buf[len - 1] = buf[len] THEN [flush |-> len - 2, repeat |-> 1]
    ELSE IF len = BufFull + 1 THEN [flush |-> LitMax, repeat |-> 0]
    ELSE IF ch = EOF THEN [flush |-> len, repeat |-> 0]
    ELSE [flush |-> 0, repeat |-> 0]

\* LitFlush that compares the last two bytes only from the third byte on.
LitFlush_Blind(buf, len, ch) ==
    IF len >= 3 /\ buf[len - 1] = buf[len] THEN [flush |-> len - 2, repeat |-> 1]
    ELSE IF len = BufFull THEN [flush |-> LitMax, repeat |-> 0]
    ELSE IF ch = EOF THEN [flush |-> len, repeat |-> 0]
    ELSE [flush |-> 0, repeat |-> 0]

\* LitFlush that flushes one byte less than the maximum from a full buffer.
LitFlush_Small(buf, len, ch) ==
    IF len >= 2 /\ buf[len - 1] = buf[len] THEN [flush |-> len - 2, repeat |-> 1]
    ELSE IF len = BufFull THEN [flush |-> LitMax - 1, repeat |-> 0]
    ELSE IF ch = EOF THEN [flush |-> len, repeat |-> 0]
    ELSE [flush |-> 0, repeat |-> 0]

\* The literal-mode decision.
LitFlush(buf, len, ch) ==
    IF len >= 2 /\ buf[len - 1] = buf[len] THEN [flush |-> len - 2, repeat |-> 1]
    ELSE IF len = BufFull THEN [flush |-> LitMax, repeat |-> 0]
    ELSE IF ch = EOF THEN [flush |-> len, repeat |-> 0]
    ELSE [flush |-> 0, repeat |-> 0]

\* LitHeader counting up from 0x80, not down from 0x100.
LitHeader_Offset(flush) == LitMax + flush

\* RunHeader one less than the count.
RunHeader_Less(flush) == flush - 1

\* The length byte of a Run and of a Literal segment.
RunHeader(flush) == flush
LitHeader(flush) == Base - flush

\* memmove(&buf[0], &buf[flush], len - flush)
\* Shift that moves the bytes from one place too early.
Shift_Off(buf, len, flush) == SubSeq(buf, flush, len - 1)

Shift(buf, len, flush) == SubSeq(buf, flush + 1, len)

\* The status encode returns after its loop.
EncodeReturn(fi, fo) ==
    IF fi.err THEN [ret |-> -EIO, msg |-> "Input error."]
    ELSE IF fo.err THEN [ret |-> -EIO, msg |-> "Output error."]
    ELSE [ret |-> 0, msg |-> ""]

\* One iteration of encode's loop with the outcomes r (fgetc), w1 (the length
\* byte's fputc) and w2 (the payload's fputc or fwrite, which on failure has
\* accepted at most p bytes of the payload).  Beside encode's locals, enc
\* records the iteration itself: mode (the branch evaluated: "run", "literal",
\* or "none" when a read error left the loop before it), seen (the buffer as
\* that branch saw it, after buf[len++] = ch) and iters (the iterations so far).
EncodeIter(r, w1, w2, p) ==
    LET g == FGetc(fin, r)
        ch == g.ch
        buf1 == IF ch # EOF THEN Append(enc.buf, ch) ELSE enc.buf
        len1 == IF ch # EOF THEN enc.len + 1 ELSE enc.len
        rdbreak == ch = EOF /\ g.f.err
        d == IF enc.repeat = 1 THEN RunFlush(buf1, len1, ch)
             ELSE LitFlush(buf1, len1, ch)
        flush == IF rdbreak THEN 0 ELSE d.flush
        repeat == IF rdbreak THEN enc.repeat ELSE d.repeat
        isrun == enc.repeat = 1
        paylen == IF isrun THEN 1 ELSE flush
        kk == IF w2 = "ok" THEN paylen
              ELSE IF p < paylen THEN p ELSE paylen - 1
        o1 == IF flush = 0 THEN fout
              ELSE FPutc(fout, IF isrun THEN RunHeader(flush) ELSE LitHeader(flush), w1)
        o2 == IF flush = 0 THEN fout
              ELSE IF isrun THEN FPutc(o1, buf1[1], w2)
              ELSE FWrite(o1, SubSeq(buf1, 1, flush), kk)
        wrbreak == flush # 0 /\ o2.err
        seg == IF isrun
               THEN [kind |-> "Run", count |-> flush, hdr |-> RunHeader(flush) % Base,
                     payload |-> <<buf1[1]>>]
               ELSE [kind |-> "Literal", count |-> flush, hdr |-> LitHeader(flush) % Base,
                     payload |-> SubSeq(buf1, 1, flush)]
        evs == <<RdEv(r)>> \o (IF flush = 0 THEN <<>> ELSE <<WrEv(w1), WrEv(w2)>>)
        leave == rdbreak \/ wrbreak \/ ch = EOF
        res == EncodeReturn(g.f, o2)
    IN  /\ fin' = g.f
        /\ fout' = o2
        /\ enc' = [ch |-> ch,
                   repeat |-> repeat,
                   flush |-> IF wrbreak THEN flush ELSE 0,
                   len |-> IF flush # 0 /\ ~wrbreak THEN len1 - flush ELSE len1,
                   buf |-> IF flush # 0 /\ ~wrbreak THEN Shift(buf1, len1, flush)
                           ELSE buf1,
                   mode |-> IF rdbreak THEN "none"
                            ELSE IF isrun THEN "run" ELSE "literal",
                   seen |-> buf1,
                   iters |-> enc.iters + 1]
        /\ segs' = IF flush = 0 THEN segs ELSE Append(segs, seg)
        /\ io' = Track(io, evs)
        /\ pc' = IF leave THEN "returned" ELSE "encode"
        /\ ret' = IF leave THEN res.ret ELSE ret
        /\ msg' = IF leave THEN res.msg ELSE msg
        /\ UNCHANGED <<op, dec, orig, coded, mn, fs>>

EncodeStep(R, W) ==
    /\ pc = "encode"
    /\ \E r \in R, w1 \in W, w2 \in W :
          \E p \in (IF w2 = "fail" THEN 0..MaxIO ELSE {0}) :
             EncodeIter(r, w1, w2, p)

\* ---------------------------------------------------------------- decode
\* LitNext without the wrap to zero.
LitNext_NoWrap(len) == len + 1

\* The length counter after one literal byte has been copied.
LitNext(len) == (len + 1) % Base

\* SegKind without the test for the terminator.
SegKind_NoStop(len, ch) ==
    IF ch = EOF THEN "eof"
    ELSE IF len = 0 THEN "length"
    ELSE IF len < LitMax THEN "run"
    ELSE "literal"

\* What decode does with the byte (or EOF) it has just read, given the count
\* left over from the length byte.
SegKind(len, ch) ==
    IF ch = EOF THEN "eof"
    ELSE IF len = 0 THEN (IF ch = 0 THEN "stop" ELSE "length")
    ELSE IF len < LitMax THEN "run"
    ELSE "literal"

\* DecodeReturn without the test of the count left over.
DecodeReturn_NoTrunc(fi, fo, len) ==
    IF fi.err THEN [ret |-> -EIO, msg |-> "Input error."]
    ELSE IF fo.err THEN [ret |-> -EIO, msg |-> "Output error."]
    ELSE [ret |-> 0, msg |-> ""]

\* The status decode returns after its loop.
DecodeReturn(fi, fo, len) ==
    IF fi.err THEN [ret |-> -EIO, msg |-> "Input error."]
    ELSE IF fo.err THEN [ret |-> -EIO, msg |-> "Output error."]
    ELSE IF len # 0 THEN [ret |-> -EIO, msg |-> "Unexpected end of stream."]
    ELSE [ret |-> 0, msg |-> ""]

\* fputc(ch, f) repeated n times.
PutN(f, c, n) == [f EXCEPT !.data = @ \o [i \in 1..n |-> c % Base]]

\* RunWrite as a loop that tests the count after decrementing it once more.
RunWrite_Extra(f, ch, len, k) ==
    IF k < len THEN [f |-> FPutc(PutN(f, ch, k), ch, "fail"), len |-> len - k, brk |-> FALSE]
    ELSE [f |-> PutN(f, ch, len + 1), len |-> 0, brk |-> FALSE]

\* The do-while of a Run segment: k < len writes succeed and the next one fails
\* (the break leaves the do-while only), or all len succeed (k = len).
RunWrite(f, ch, len, k) ==
    IF k < len THEN [f |-> FPutc(PutN(f, ch, k), ch, "fail"), len |-> len - k, brk |-> FALSE]
    ELSE [f |-> PutN(f, ch, len), len |-> 0, brk |-> FALSE]

\* The copy of one byte of a Literal segment: a failed write leaves the loop.
LitWrite(f, ch, len, w) ==
    IF w = "fail" THEN [f |-> FPutc(f, ch, w), len |-> len, brk |-> TRUE]
    ELSE [f |-> FPutc(f, ch, w), len |-> LitNext(len), brk |-> FALSE]

\* One iteration of decode's loop with the outcomes r (fgetc), w (the literal
\* byte's fputc) and k (the writes of the run that succeed).  Beside decode's
\* locals, dec counts the calls of fgetc (reads).
DecodeIter(r, w, k) ==
    LET g == FGetc(fin, r)
        ch == g.ch
        kind == SegKind(dec.len, ch)
        kr == IF k < dec.len THEN k ELSE dec.len
        x == CASE kind = "run" -> RunWrite(fout, ch, dec.len, kr)
               [] kind = "literal" -> LitWrite(fout, ch, dec.len, w)
               [] kind = "length" -> [f |-> fout, len |-> ch, brk |-> FALSE]
               [] OTHER -> [f |-> fout, len |-> dec.len, brk |-> TRUE]
        Ws(n) == [i \in 1..n |-> "w"]
        evs == <<RdEv(r)>> \o
               (CASE kind = "run" -> Ws(kr) \o (IF kr < dec.len THEN <<"wf">> ELSE <<>>)
                  [] kind = "literal" -> <<WrEv(w)>>
                  [] kind = "eof" /\ r # "fail" /\ dec.len # 0 -> <<"eos">>
                  [] OTHER -> <<>>)
        res == DecodeReturn(g.f, x.f, x.len)
    IN  /\ fin' = g.f
        /\ fout' = x.f
        /\ dec' = [ch |-> ch, len |-> x.len, reads |-> dec.reads + 1]
        /\ io' = Track(io, evs)
        /\ pc' = IF x.brk THEN "returned" ELSE "decode"
        /\ ret' = IF x.brk THEN res.ret ELSE ret
        /\ msg' = IF x.brk THEN res.msg ELSE msg
        /\ UNCHANGED <<op, enc, segs, orig, coded, mn, fs>>

DecodeStep(R, W) ==
    /\ pc = "decode"
    /\ \E r \in R, w \in W :
          \E k \in (IF W = {"ok"} THEN {dec.len} ELSE 0..dec.len) :
             DecodeIter(r, w, k)

\* ---------------------------------------------------------------- round trip
\* decode(encode(S)): the bytes encode wrote are handed to decode as its source.
Pipe ==
    /\ pc = "returned" /\ op = "encode" /\ ret = 0
    /\ op' = "decode"
    /\ coded' = fout.data
    /\ fin' = OpenIn(fout.data)
    /\ fout' = OpenOut
    /\ pc' = "decode"
    /\ UNCHANGED <<enc, dec, ret, msg, segs, io, orig, mn, fs>>

\* ---------------------------------------------------------------- main
\* File names: no FILE or "-", a name without the suffix, a name with it, and
\* the suffix alone (its length is 4, not more).
Names == {"-", "data", "data.rle", ".rle"}
StrLen(n) == CASE n = "-" -> 1 [] n = "data" -> 4 [] n = "data.rle" -> 8 [] n = ".rle" -> 4
EndsRle(n) == n \in {"data.rle", ".rle"}

\* The calls of main that the environment may fail.
SetupCalls == {"fopen", "malloc", "unlink", "open", "fdopen"}

\* main's exit status for its final ret.
ExitStatus(r) == IF r # 0 THEN "EXIT_SUCCESS" ELSE "EXIT_FAILURE"

\* The file system is a record: in (the input file: "present", "absent",
\* "deleted"), inData (its bytes), out (the output file: "absent", "stale" when
\* it exists before main runs, "created"), outData (the bytes that have reached
\* the output, file or standard output), flushFailed (the write of the buffered
\* output failed).

\* The codec's locals and ledger before a call of encode or decode.
Fresh ==
    /\ enc = [ch |-> 0, len |-> 0, flush |-> 0, repeat |-> 0, buf |-> <<>>,
              mode |-> "none", seen |-> <<>>, iters |-> 0]
    /\ dec = [ch |-> 0, len |-> 0, reads |-> 0]
    /\ ret = 0
    /\ msg = ""
    /\ segs = <<>>
    /\ io = [first |-> "none", late |-> 0]
    /\ coded = <<>>

NoMain == [opt |-> "", fnin |-> "-", c |-> FALSE, d |-> FALSE, f |-> FALSE, k |-> FALSE,
           tty |-> FALSE, keep |-> 0, force |-> 0, fin |-> "NULL", fout |-> "NULL",
           ret |-> 0, exit |-> "", err |-> ""]
NoFs == [in |-> "absent", inData |-> <<>>, out |-> "absent", outData |-> <<>>,
         flushFailed |-> FALSE]

\* Whether main leaves for the exit label before calling op, and why; fail names
\* the call the environment fails ("none": no call fails).
SetupError(m, f, fail) ==
    LET stdio == m.fnin = "-"
        named == ~stdio /\ ~m.c
    IN  IF ~stdio /\ (f.in # "present" \/ fail = "fopen") THEN "fopen"
        ELSE IF named /\ ~m.d /\ ~m.f /\ StrLen(m.fnin) > 4 /\ EndsRle(m.fnin)
             THEN "has suffix"
        ELSE IF named /\ m.d /\ (StrLen(m.fnin) <= 4 \/ ~EndsRle(m.fnin))
             THEN "unknown suffix"
        ELSE IF named /\ fail = "malloc" THEN "malloc"
        ELSE IF named /\ m.f /\ fail = "unlink" THEN "unlink"
        ELSE IF named /\ (fail = "open" \/ (f.out = "stale" /\ ~m.f)) THEN "open"
        ELSE IF named /\ fail = "fdopen" THEN "fdopen"
        ELSE IF ~m.d /\ ~named /\ m.tty /\ ~m.f THEN "terminal"
        ELSE ""

\* main up to the call of op: the options, the input, the output file.
MainSetup(W) ==
    /\ pc = "main"
    /\ \E fail \in (IF W = {"ok"} THEN {"none"} ELSE {"none"} \cup SetupCalls) :
        LET stdio == mn.fnin = "-"
            named == ~stdio /\ ~mn.c
            e == SetupError(mn, fs, fail)
            m1 == [mn EXCEPT !.keep = IF mn.k \/ stdio THEN 1 ELSE 0,
                             !.force = IF mn.f THEN 1 ELSE 0,
                             !.fin = IF stdio THEN "stdin"
                                     ELSE IF e = "fopen" THEN "NULL" ELSE "file",
                             !.fout = IF ~named THEN "stdout"
                                      ELSE IF e \in {"", "terminal"} THEN "file" ELSE "NULL",
                             !.err = e]
            created == named /\ e \in {"", "terminal", "fdopen"}
        IN  IF mn.opt \in {"h", "V"}
            THEN /\ mn' = [mn EXCEPT !.exit = "EXIT_SUCCESS"]
                 /\ pc' = "exited"
                 /\ UNCHANGED <<op, fin, fout, fs>>
            ELSE IF mn.opt = "?"
            THEN /\ mn' = [mn EXCEPT !.exit = "EXIT_FAILURE"]
                 /\ pc' = "exited"
                 /\ UNCHANGED <<op, fin, fout, fs>>
            ELSE /\ mn' = m1
                 /\ op' = IF mn.d THEN "decode" ELSE "encode"
                 /\ fs' = IF created THEN [fs EXCEPT !.out = "created", !.outData = <<>>]
                           ELSE IF named /\ mn.f /\ fs.out = "stale"
                                   /\ e \in {"open"} /\ fail = "open"
                                THEN [fs EXCEPT !.out = "absent", !.outData = <<>>]
                           ELSE fs
                 /\ fin' = OpenIn(fs.inData)
                 /\ fout' = OpenOut
                 /\ pc' = IF e = "" THEN op' ELSE "exit"
    /\ UNCHANGED <<enc, dec, ret, msg, segs, io, orig, coded>>

\* main after op has returned: the input file is removed.
MainRemove(W) ==
    /\ pc = "returned"
    /\ \E u \in W :
        LET rm == ret = 0 /\ mn.keep = 0
        IN  /\ mn' = [mn EXCEPT !.ret = IF rm /\ u = "fail" THEN -EACCES ELSE ret,
                                !.fin = IF rm THEN "NULL" ELSE @]
            /\ fs' = IF rm /\ u = "ok" THEN [fs EXCEPT !.in = "deleted"] ELSE fs
    /\ pc' = "exit"
    /\ UNCHANGED <<op, fin, fout, enc, dec, ret, msg, segs, io, orig, coded>>

\* main from the exit label: the streams are closed, which writes out what the
\* output stream still buffers (w: whether that write succeeds), and main
\* returns its status.  Standard output is flushed as the process exits.
MainExit(W) ==
    /\ pc = "exit"
    /\ \E w \in W :
        LET pending == mn.fout # "NULL" /\ fout.data # <<>>
        IN  /\ fs' = IF ~pending THEN fs
                      ELSE IF w = "ok" /\ ~fout.err THEN [fs EXCEPT !.outData = fout.data]
                      ELSE [fs EXCEPT !.flushFailed = TRUE]
            /\ mn' = [mn EXCEPT !.fin = "NULL", !.fout = "NULL",
                                !.exit = ExitStatus(mn.ret)]
    /\ pc' = "exited"
    /\ UNCHANGED <<op, fin, fout, enc, dec, ret, msg, segs, io, orig, coded>>

\* ---------------------------------------------------------------- specifications
Start(o, bytes) ==
    /\ pc = o
    /\ op = o
    /\ fin = OpenIn(bytes)
    /\ orig = bytes
    /\ fout = OpenOut
    /\ Fresh
    /\ mn = NoMain
    /\ fs = NoFs

Reliable == {"ok"}
Unreliable == {"ok", "fail"}

\* decode(encode(S)) over reliable streams.
Init == \E s \in Inputs : Start("encode", s)

Next == EncodeStep(Reliable, Reliable) \/ Pipe \/ DecodeStep(Reliable, Reliable)

Spec == Init /\ [][Next]_vars

\* encode alone, where any read may fail and every write succeeds.
NextEnc == EncodeStep(Unreliable, Reliable)

SpecEnc == Init /\ [][NextEnc]_vars

\* decode of an arbitrary byte stream over reliable streams.
BoundaryStreams ==
    {<<l>> \o AltOf(200, 201, n) \o t :
        l \in {RunMax, LitMax, LitMax + 1}, n \in {0, 1, RunMax, LitMax},
        t \in {<<>>, <<0>>}}

WireStreams == SeqsUpTo(WireBytes, MaxWire) \cup BoundaryStreams

InitDec == \E s \in WireStreams : Start("decode", s)

NextDec == DecodeStep(Reliable, Reliable)

SpecDec == InitDec /\ [][NextDec]_vars

\* encode or decode of a short stream, where any read or write may fail.
InitIO == \E o \in {"encode", "decode"}, s \in SeqsUpTo(IOBytes, MaxIO) : Start(o, s)

NextIO == EncodeStep(Unreliable, Unreliable) \/ DecodeStep(Unreliable, Unreliable)

SpecIO == InitIO /\ [][NextIO]_vars

\* The same, where a call that has been entered runs to its return: the program
\* is sequential and every library call it makes returns.
SpecIOFair == SpecIO /\ WF_vars(NextIO)

\* main with every combination of options, on a short input file, where any
\* call may fail.
MainFiles == SeqsUpTo({1, 2}, MaxMain)

InitMain ==
    /\ pc = "main"
    /\ op = "encode"
    /\ fin = OpenIn(<<>>)
    /\ fout = OpenOut
    /\ orig = <<>>
    /\ Fresh
    /\ \E o \in {"", "h", "V", "?"}, n \in Names, t \in BOOLEAN,
          c \in BOOLEAN, d \in BOOLEAN, f \in BOOLEAN, k \in BOOLEAN :
          /\ o # "" => n = "-" /\ ~c /\ ~d /\ ~f /\ ~k /\ ~t
          /\ mn = [NoMain EXCEPT !.opt = o, !.fnin = n, !.c = c, !.d = d, !.f = f,
                                 !.k = k, !.tty = t, !.ret = -EINVAL]
    /\ \E i \in {"present", "absent"}, b \in MainFiles, o \in {"absent", "stale"} :
          /\ i = "absent" => b = <<>>
          /\ mn.opt # "" => i = "absent" /\ o = "absent"
          /\ fs = [NoFs EXCEPT !.in = i, !.inData = b, !.out = o]

NextMain ==
    \/ MainSetup(Unreliable)
    \/ EncodeStep(Unreliable, Unreliable)
    \/ DecodeStep(Unreliable, Unreliable)
    \/ MainRemove(Unreliable)
    \/ MainExit(Unreliable)

SpecMain == InitMain /\ [][NextMain]_vars

\* ---------------------------------------------------------------- the wire format
\* The expansion of a byte stream read as segments: a length byte below 128 and
\* one byte to repeat, or a length byte l from 128 up and 256 - l bytes to copy.
\* state tells how the stream ends: "complete" (after a whole segment),
\* "terminated" (at a zero length byte) or "truncated" (inside a segment);
\* used counts the bytes up to and including that point.
RECURSIVE Wire(_)
Wire(s) ==
    IF s = <<>> THEN [out |-> <<>>, state |-> "complete", used |-> 0]
    ELSE LET l == s[1]
             n == Len(s)
             c == 256 - l
         IN IF l = 0 THEN [out |-> <<>>, state |-> "terminated", used |-> 1]
            ELSE IF l < 128
            THEN IF n < 2 THEN [out |-> <<>>, state |-> "truncated", used |-> 1]
                 ELSE LET rest == Wire(SubSeq(s, 3, n))
                      IN [out |-> RunOf(s[2], l) \o rest.out, state |-> rest.state,
                          used |-> 2 + rest.used]
            ELSE IF n < 1 + c
                 THEN [out |-> SubSeq(s, 2, n), state |-> "truncated", used |-> n]
                 ELSE LET rest == Wire(SubSeq(s, c + 2, n))
                      IN [out |-> SubSeq(s, 2, c + 1) \o rest.out, state |-> rest.state,
                          used |-> c + 1 + rest.used]

Runs == {i \in 1..Len(segs) : segs[i].kind = "Run"}
Literals == {i \in 1..Len(segs) : segs[i].kind = "Literal"}

\* ---------------------------------------------------------------- claims
\* C1 (round trip): over reliable streams encode returns success, decode of the
\* bytes encode wrote returns success, and decode's output is the input.
C1_RoundTrip ==
    /\ pc = "returned" => ret = 0
    /\ pc = "returned" /\ op = "decode" => fin.data = coded /\ fout.data = orig

\* An input with a run of more than RunMax bytes has gone through both.
C1_Witness ==
    /\ pc = "returned" /\ op = "decode" /\ fout.data = orig
    /\ Len(orig) > BufFull
    /\ \E i \in Runs : segs[i].count = RunMax
    /\ \E i \in Literals : segs[i].count >= 1

\* C2 (decoder against the wire format): a stream of complete segments with no
\* zero length byte decodes with success to the concatenation of the segments'
\* expansions, every byte of it consumed.
C2_DecodeWire ==
    pc = "returned" /\ Wire(fin.data).state = "complete" =>
        /\ ret = 0
        /\ fout.data = Wire(fin.data).out
        /\ fin.pos = Len(fin.data)

\* A run of two followed by a literal of two has been decoded.
C2_Witness ==
    /\ pc = "returned" /\ fin.data = <<2, 255, 254, 1, 2>>
    /\ fout.data = <<255, 255, 1, 2>>

\* C3 (run minimum): every Run segment encode emits has a count of at least 2,
\* and its length byte is neither 0 nor 1.
C3_RunMinimum ==
    \A i \in Runs : segs[i].count >= 2 /\ segs[i].hdr \notin {0, 1}

\* Runs closed at the maximum, by a differing byte and by the end of input.
C3_Witness ==
    /\ pc = "returned" /\ op = "encode"
    /\ Len(segs) = 3
    /\ segs[1].kind = "Run" /\ segs[1].count = RunMax
    /\ segs[2].kind = "Run" /\ segs[2].count = 2 /\ segs[2].payload = segs[1].payload
    /\ segs[3].kind = "Literal"

\* C4 (maxima): a Run segment has at most 127 bytes and a length byte below
\* 0x80; a Literal segment has at most 128 bytes and the length byte
\* 0x100 - count, which is at least 0x80.
C4_Maxima ==
    /\ \A i \in Runs : segs[i].count <= 127 /\ segs[i].hdr < 128
    /\ \A i \in Literals :
          segs[i].count <= 128 /\ segs[i].hdr = 256 - segs[i].count /\ segs[i].hdr >= 128

\* One encoding holds a Literal segment and a Run segment of the greatest counts.
C4_Witness ==
    /\ \E i \in Runs : segs[i].count = 127
    /\ \E i \in Literals : segs[i].count = 128 /\ segs[i].hdr = 128

\* C5 as stated (no adjacent mergeable segments): no two consecutive segments
\* are both Literal, and none are both Run with the same payload byte.
C5_NoAdjacentMergeable ==
    \A i \in 1..(Len(segs) - 1) :
        /\ ~(segs[i].kind = "Literal" /\ segs[i + 1].kind = "Literal")
        /\ ~(segs[i].kind = "Run" /\ segs[i + 1].kind = "Run"
              /\ segs[i].payload = segs[i + 1].payload)

\* C5 as amended: two consecutive segments are both Literal only when the
\* first holds the maximum of 128 bytes, and both Run with the same payload
\* byte only when the first holds the maximum of 127 bytes.
C5_AdjacentOnlyAtMaximum ==
    \A i \in 1..(Len(segs) - 1) :
        /\ segs[i].kind = "Literal" /\ segs[i + 1].kind = "Literal"
              => segs[i].count = LitMax
        /\ segs[i].kind = "Run" /\ segs[i + 1].kind = "Run"
              /\ segs[i].payload = segs[i + 1].payload
              => segs[i].count = RunMax

\* Both splits in one encoding: Literal after a full Literal, Run after a full
\* Run of the same byte.
C5_Witness ==
    \E i, j \in 1..(Len(segs) - 1) :
        /\ segs[i].kind = "Literal" /\ segs[i + 1].kind = "Literal"
        /\ segs[j].kind = "Run" /\ segs[j + 1].kind = "Run"
        /\ segs[j].payload = segs[j + 1].payload

\* C6 (truncation): over reliable streams decode fails exactly when the input
\* ends inside a segment, and then with the end-of-stream message; input that
\* ends where a length byte is expected, the empty input included, succeeds.
C6_Truncation ==
    pc = "returned" =>
        /\ ret # 0 <=> Wire(fin.data).state = "truncated"
        /\ ret # 0 => ret = -EIO /\ msg = "Unexpected end of stream."

\* A Literal segment of two bytes that ends after one.
C6_Witness ==
    /\ pc = "returned" /\ fin.data = <<1, 2, 254, 1>>
    /\ ret = -EIO /\ fout.data = <<2, 1>>

\* C7 (zero terminator): a byte 0 read as a length byte stops decode with
\* success, the output being the expansion of the segments before it whatever
\* follows; a byte 0 read as a data byte is output and decoding goes on.
C7_ZeroTerminator ==
    pc = "returned" =>
        LET w == Wire(fin.data)
        IN  /\ fout.data = w.out
            /\ w.state = "terminated" => ret = 0 /\ fin.pos = w.used /\ dec.ch = 0

\* A run of zeros, then the terminator, then bytes that are never read.
C7_Witness ==
    /\ pc = "returned" /\ fin.data = <<2, 0, 0, 1, 2>>
    /\ fout.data = <<0, 0>> /\ fin.pos = 3 /\ ret = 0

\* C8 as stated (stop on first error): after the first failed read or write,
\* encode and decode make no further I/O call.
C8_StopOnFirstError == io.late = 0

MsgOf(kind) ==
    CASE kind = "input" -> "Input error."
      [] kind = "output" -> "Output error."
      [] kind = "eos" -> "Unexpected end of stream."
      [] OTHER -> ""

\* C9 as stated (first error reported): the failure decode reports is the one
\* that occurred first.
C9_FirstErrorReported ==
    pc = "returned" /\ op = "decode" /\ io.first # "none" => msg = MsgOf(io.first)

\* C10 as stated (the source file is deleted only after success): the input
\* file is removed only when op returned 0 and every output byte has been
\* written to the output; when op or the writing of the output fails, the input
\* file is still there as main exits.
C10_DeleteOnlyAfterSuccess ==
    /\ fs.in = "deleted" => ret = 0
    /\ pc = "exited" /\ fs.in = "deleted" => fs.outData = fout.data
    /\ pc = "exited" /\ (ret # 0 \/ fs.flushFailed) => fs.in # "deleted"

\* C11 as stated (option -c keeps the input): with -c and a named input file
\* the output goes to standard output and the input file is not deleted, with
\* or without -k.
C11_StdoutKeepsInput ==
    mn.c /\ mn.fnin # "-" =>
        /\ fs.in # "deleted"
        /\ pc \in {"encode", "decode", "returned"} => mn.fout = "stdout"

\* C19 as stated (exit status): main exits with EXIT_SUCCESS exactly when the
\* operation returned 0 and any removal of the input file succeeded, and with
\* EXIT_FAILURE after every failure.
C19_ExitStatus ==
    pc = "exited" /\ mn.opt = "" =>
        /\ mn.exit = "EXIT_SUCCESS" <=> mn.err = "" /\ ret = 0 /\ mn.ret = 0
        /\ mn.exit = "EXIT_FAILURE" <=> mn.err # "" \/ ret # 0 \/ mn.ret # 0

\* ---------------------------------------------------------------- the segments
\* The bytes encode has written, also after they were handed to decode.
EncOut == IF op = "encode" THEN fout.data ELSE coded

RECURSIVE SumCounts(_)
SumCounts(ss) == IF ss = <<>> THEN 0 ELSE Head(ss).count + SumCounts(Tail(ss))

RECURSIVE Payloads(_)
Payloads(ss) == IF ss = <<>> THEN <<>> ELSE Head(ss).payload \o Payloads(Tail(ss))

\* The place in encode's output of segment i's length byte.
RECURSIVE SegStart(_)
SegStart(i) == IF i = 1 THEN 1 ELSE SegStart(i - 1) + 1 + Len(segs[i - 1].payload)

Encoded == pc = "returned" /\ op = "encode" /\ ret = 0

\* The input is one byte repeated more than 127 times.
LongRun == Len(orig) > 127 /\ orig = RunOf(orig[1], Len(orig))

\* The input has more than 128 bytes and no two equal neighbours.
LongLiteral == Len(orig) > 128 /\ \A i \in 1..(Len(orig) - 1) : orig[i] # orig[i + 1]

\* C12 as stated (long runs): N > 127 copies of b are encoded as Run segments
\* with payload b only, whose counts sum to N.
C12_LongRunOnlyRuns ==
    Encoded /\ LongRun =>
        /\ \A i \in 1..Len(segs) : segs[i].kind = "Run" /\ segs[i].payload = <<orig[1]>>
        /\ SumCounts(segs) = Len(orig)

\* C12 as amended: N > 127 copies of b are encoded as N \div 127 Run segments
\* of 127 with payload b, followed by a Run segment of N % 127 when that is 2
\* or more, and by a Literal segment holding the one byte b when it is 1; the
\* counts sum to N.
C12_LongRunSplit ==
    Encoded /\ LongRun =>
        LET q == Len(orig) \div RunMax
            r == Len(orig) % RunMax
        IN  /\ Len(segs) = q + (IF r = 0 THEN 0 ELSE 1)
            /\ \A i \in 1..q : segs[i].kind = "Run" /\ segs[i].count = RunMax
            /\ \A i \in 1..Len(segs) : segs[i].payload = <<orig[1]>>
            /\ r >= 2 => segs[q + 1].kind = "Run" /\ segs[q + 1].count = r
            /\ r = 1 => segs[q + 1].kind = "Literal" /\ segs[q + 1].count = 1
            /\ SumCounts(segs) = Len(orig)

\* 255 copies: two full Run segments and the last byte as a Literal segment.
C12_Witness ==
    /\ Encoded /\ LongRun /\ Len(orig) = 2 * RunMax + 1
    /\ Len(segs) = 3 /\ segs[3].kind = "Literal"

\* C13 (long literal stretches): more than 128 bytes with no two equal
\* neighbours are encoded as Literal segments only, each of 128 bytes except
\* the last, whose payloads put together are the input.
C13_LongLiteralSplit ==
    Encoded /\ LongLiteral =>
        /\ \A i \in 1..Len(segs) : segs[i].kind = "Literal" /\ segs[i].count >= 1
        /\ \A i \in 1..(Len(segs) - 1) : segs[i].count = 128
        /\ \A i \in 1..Len(segs) : Len(segs[i].payload) = segs[i].count
        /\ Payloads(segs) = orig

\* 257 bytes: two full Literal segments and one of a single byte.
C13_Witness ==
    /\ Encoded /\ LongLiteral /\ Len(orig) = 2 * LitMax + 1
    /\ Len(segs) = 3 /\ segs[3].count = 1

\* C14 (no terminator): no length byte encode writes is 0; a Run segment's
\* length byte is its count, a Literal segment's is 256 less its count.
C14_NoTerminator ==
    ~fout.err =>
        \A i \in 1..Len(segs) :
            LET b == EncOut[SegStart(i)]
            IN  /\ b # 0
                /\ segs[i].kind = "Run" => b = segs[i].count
                /\ segs[i].kind = "Literal" => b = 256 - segs[i].count

\* Zero bytes are written as payload, of a Literal and of a Run segment.
C14_Witness ==
    /\ Encoded /\ orig = <<0, 65, 0, 0>>
    /\ fout.data = <<254, 0, 65, 2, 0>>

\* C15 (lookahead buffer bound): len is always within 0..129, the store
\* buf[len++] stays inside the 129-byte buffer, and in run mode len <= 127.
C15_BufferBound ==
    /\ enc.len \in 0..BufFull
    /\ Len(enc.buf) = enc.len
    /\ Len(enc.seen) <= BufFull
    /\ pc = "encode" => enc.len < BufFull
    /\ enc.mode = "run" => Len(enc.seen) <= RunMax

\* The buffer is full: the 129th byte has been stored.
C15_Witness == enc.mode = "literal" /\ Len(enc.seen) = BufFull /\ enc.ch # EOF

\* C16 (run-mode buffer shape): whenever the run-mode branch is evaluated the
\* buffer holds at least 2 bytes, and all of them except possibly the newest
\* equal buf[0].
C16_RunShape ==
    enc.mode = "run" =>
        /\ Len(enc.seen) >= 2
        /\ \A i \in 1..(Len(enc.seen) - 1) : enc.seen[i] = enc.seen[1]

\* The run-mode branch meets a newest byte that ends the run.
C16_Witness ==
    /\ enc.mode = "run" /\ Len(enc.seen) = 3 /\ enc.seen[3] # enc.seen[1]
    /\ segs # <<>> /\ segs[Len(segs)] = [kind |-> "Run", count |-> 2, hdr |-> 2,
                                            payload |-> <<enc.seen[1]>>]

\* C17 (literal payloads): no Literal segment holds two adjacent equal bytes.
C17_NoRepeatInLiteral ==
    \A i \in 1..Len(segs) :
        segs[i].kind = "Literal" =>
            \A j \in 1..(Len(segs[i].payload) - 1) :
                segs[i].payload[j] # segs[i].payload[j + 1]

\* A Literal segment is flushed without the two equal bytes that follow it.
C17_Witness ==
    /\ pc = "encode" /\ enc.mode = "literal" /\ enc.repeat = 1
    /\ enc.buf = <<0, 0>> /\ segs = <<[kind |-> "Literal", count |-> 2, hdr |-> 254,
                                         payload |-> <<65, 255>>]>>

\* The input bytes encode has read so far.
ReadSoFar == SubSeq(orig, 1, fin.pos)

StartsWith(s, t) == Len(t) <= Len(s) /\ t = SubSeq(s, 1, Len(t))

\* C18 (streaming prefix invariant): after every iteration without an I/O
\* failure the output is a sequence of complete segments whose expansion,
\* followed by the buffered bytes, is the input read so far; on successful
\* return the buffer is empty; after a read failure the output decodes to a
\* prefix of the bytes read.
C18_StreamingPrefix ==
    LET w == Wire(fout.data)
    IN  /\ w.state = "complete" /\ w.used = Len(fout.data)
        /\ w.out = Payloads([i \in 1..Len(segs) |->
                        [payload |-> IF segs[i].kind = "Run"
                                     THEN RunOf(segs[i].payload[1], segs[i].count)
                                     ELSE segs[i].payload]])
        /\ ~fin.err => w.out \o enc.buf = ReadSoFar
        /\ pc = "returned" /\ ret = 0 => enc.buf = <<>> /\ enc.len = 0 /\ w.out = orig
        /\ fin.err => StartsWith(ReadSoFar, w.out)

\* A read fails with segments written and bytes still in the buffer.
C18_Witness ==
    /\ pc = "returned" /\ fin.err /\ ret = -EIO
    /\ fout.data # <<>> /\ enc.buf # <<>> /\ fin.pos < Len(orig)
    /\ Wire(fout.data).out \o enc.buf = ReadSoFar

\* The calls of fgetc so far: one for each byte read, and one more for the end
\* of input or the read failure that ended the loop.
Fetched(ch) == fin.pos + (IF ch = EOF THEN 1 ELSE 0)

C20_Counts ==
    /\ fin.pos <= Len(fin.data)
    /\ op = "encode" =>
          /\ enc.iters = Fetched(enc.ch)
          /\ pc = "returned" /\ ret = 0 => enc.iters = Len(orig) + 1
    /\ op = "decode" => dec.reads = Fetched(dec.ch)

\* C20 (termination): on every finite input, with or without read and write
\* failures, encode and decode eventually return; encode makes one iteration
\* for each input byte and one for the end of input, and decode reads each
\* input byte at most once.
C20_Termination == []C20_Counts /\ <>(pc = "returned")

\* encode has returned from the iteration that met the end of an input of three
\* bytes or more, where the write of its second segment failed.
C20_Witness ==
    /\ pc = "returned" /\ op = "encode" /\ Len(orig) >= 3
    /\ enc.iters = Len(orig) + 1 /\ fout.err /\ Len(segs) = 2
====
